---- MODULE Spec2Model ----
(***************************************************************************)
(* Model of delta-version-compare.py: the interactive session that walks   *)
(* the timestamped versions of one file, rendering the diff of each        *)
(* adjacent pair with the external `delta` program.                        *)
(*                                                                         *)
(* A file path is modelled by an integer: 0 is Path(base_filename), the    *)
(* current working file; t > 0 is the versioned file whose name carries    *)
(* timestamp t.  A line of typed input is a sequence of one-character      *)
(* strings.  Output is modelled by `printed`, the messages the last step   *)
(* wrote, and by `delta_calls`, the log of renderer invocations.           *)
(***************************************************************************)
EXTENDS Integers, Sequences, FiniteSets, TLC

\* Bounds of the model.
MaxVersions == 3    \* timestamps a directory may hold are 1..MaxVersions
MaxKeys == 3        \* keystrokes read by one session
MaxCommits == 3     \* commits `git log` lists for the file
MaxLimit == 2       \* largest --max-versions given
MaxEntries == 3     \* files in the directory that is listed

VARIABLES
    pc,                       \* position of the program
    dir_versions,             \* timestamps of the versioned files in the directory
    include_current,          \* not args.no_current
    current_exists,           \* Path(base_filename).exists()
    files_to_compare,         \* the snapshot sequence
    current_index,            \* the cursor
    max_index,                \* last valid comparison index
    show_current_comparison,  \* the display flag
    keys,                     \* keystrokes read so far, oldest first
    user_input,               \* the stripped line read by _selective_compare
    delta_calls,              \* renderer invocations so far, oldest first
    delta_exit,               \* how the last renderer invocation ended
    printed,                  \* messages written by the last step
    exit_code,                \* process exit status, NoExit while running
    interrupted               \* the last step's blocking call got KeyboardInterrupt

vars == <<pc, dir_versions, include_current, current_exists, files_to_compare,
          current_index, max_index, show_current_comparison, keys, user_input,
          delta_calls, delta_exit, printed, exit_code, interrupted>>

NoExit == 0 - 1

\* The state of git-version-extractor.py, a separate program.
VARIABLES
    x_pc,             \* position of the extractor
    x_filepath,       \* args.filepath, a plain file name
    x_is_repo,        \* `git rev-parse --git-dir` succeeds
    x_log,            \* how `git log --follow` ends
    x_history,        \* the commits `git log` lists, newest first
    x_max_versions,   \* args.max_versions, 0 when absent
    x_commits,        \* the commits the loop goes through
    x_i,              \* commits the loop has gone through
    x_count,          \* extracted_count
    x_prev,           \* previous_content
    x_writes,         \* files written, oldest first: <<output path, content>>
    x_printed,        \* messages written by the last step
    x_exit,           \* process exit status, NoExit while running
    x_interrupted     \* KeyboardInterrupt reached main

xvars == <<x_pc, x_filepath, x_is_repo, x_log, x_history, x_max_versions, x_commits, x_i,
           x_count, x_prev, x_writes, x_printed, x_exit, x_interrupted>>

\* The state of one directory that the extractor writes snapshots into and
\* the comparer's _find_versioned_files then lists.
VARIABLES
    r_pc,          \* "fill" while files are put there, "done" after the listing
    r_base,        \* the base file name given to both programs
    r_dir,         \* the names in the directory, in the order of iterdir()
    r_written,     \* <<commit date, name>> of each snapshot the extractor wrote
    r_found        \* the names _find_versioned_files returned, in order

rvars == <<r_pc, r_base, r_dir, r_written, r_found>>

\* The directory before either program touched it.
DirectoryNotUsed ==
    /\ r_pc = "fill"
    /\ r_base = <<>>
    /\ r_dir = <<>>
    /\ r_written = {}
    /\ r_found = <<>>

\* previous_content = None
NoContent == <<"None">>

\* The extractor before it runs, in a session of the comparer.
ExtractorNotRun ==
    /\ x_pc = "start"
    /\ x_filepath = <<>>
    /\ x_is_repo = TRUE
    /\ x_log = "ok"
    /\ x_history = <<>>
    /\ x_max_versions = 0
    /\ x_commits = <<>>
    /\ x_i = 0
    /\ x_count = 0
    /\ x_prev = NoContent
    /\ x_writes = <<>>
    /\ x_printed = <<>>
    /\ x_exit = NoExit
    /\ x_interrupted = FALSE

----------------------------------------------------------------------------
\* Inputs of the environment.

\* A keystroke: the six commands and one key that is no command.
Keys == {"q", "s", "n", "p", "g", "G", "x"}

\* How one run of the renderer ends: exit status 0, a non-zero exit status
\* (CalledProcessError), or no such binary (FileNotFoundError).
DeltaExits == {"ok", "nonzero", "notfound"}

Digits == {"0", "1", "2", "3", "4", "5", "6", "7", "8", "9"}

\* Tokens a user may type as an ordinal.
Tokens == {<<"0">>, <<"1">>, <<"2">>, <<"x">>}

\* Lines a user may type at the selective-compare prompt: nothing, blanks,
\* one token, two tokens, and a few with three tokens or extra blanks.
Lines ==
    {<<>>, <<" ">>, <<" ", " ">>}
    \cup Tokens
    \cup {t1 \o <<" ">> \o t2 : t1 \in Tokens, t2 \in Tokens}
    \cup {<<"1", " ", "2", " ", "3">>, <<"2", " ", "1", " ", "x">>,
          <<" ", "1", " ", "2", " ">>, <<"2", " ", " ", "1">>,
          <<" ", "3", " ", "1">>, <<"3", " ">>, <<"1", " ", "3">>, <<"1", " ", "1", "0">>,
          <<"2", "1">>, <<"-", "1", " ", "2">>, <<"+", "2", " ", "1">>,
          <<"1", " ", "-">>}

----------------------------------------------------------------------------
\* Pure helpers.

Max(S) == CHOOSE m \in S : \A x \in S : x <= m

\* versioned_files.sort(key=timestamp, reverse=True)
RECURSIVE SortNewestFirst(_)
SortNewestFirst(S) ==
    IF S = {} THEN <<>>
    ELSE <<Max(S)>> \o SortNewestFirst(S \ {Max(S)})

\* str.strip() on a line whose only whitespace is the blank.
RECURSIVE LStrip(_)
LStrip(s) == IF s # <<>> /\ Head(s) = " " THEN LStrip(Tail(s)) ELSE s

RECURSIVE RStrip(_)
RStrip(s) ==
    IF s # <<>> /\ s[Len(s)] = " " THEN RStrip(SubSeq(s, 1, Len(s) - 1)) ELSE s

Strip(s) == RStrip(LStrip(s))

\* str.split(): the maximal blank-free runs of s, in order.
RECURSIVE SplitFrom(_, _, _)
SplitFrom(s, cur, acc) ==
    IF s = <<>>
    THEN IF cur = <<>> THEN acc ELSE Append(acc, cur)
    ELSE IF Head(s) = " "
         THEN SplitFrom(Tail(s), <<>>, IF cur = <<>> THEN acc ELSE Append(acc, cur))
         ELSE SplitFrom(Tail(s), Append(cur, Head(s)), acc)

Split(s) == SplitFrom(s, <<>>, <<>>)

DigitVal(c) ==
    CASE c = "0" -> 0 [] c = "1" -> 1 [] c = "2" -> 2 [] c = "3" -> 3
      [] c = "4" -> 4 [] c = "5" -> 5 [] c = "6" -> 6 [] c = "7" -> 7
      [] c = "8" -> 8 [] c = "9" -> 9

AllDigits(t) == Len(t) > 0 /\ \A i \in 1..Len(t) : t[i] \in Digits

\* int(token) raises ValueError unless the token is an optional sign
\* followed by decimal digits.
IsInt(t) ==
    IF t # <<>> /\ Head(t) \in {"-", "+"} THEN AllDigits(Tail(t)) ELSE AllDigits(t)

RECURSIVE DigitsValue(_, _)
DigitsValue(t, acc) ==
    IF t = <<>> THEN acc ELSE DigitsValue(Tail(t), 10 * acc + DigitVal(Head(t)))

\* int(token) for a token with IsInt.
ParseInt(t) ==
    IF Head(t) = "-" THEN 0 - DigitsValue(Tail(t), 0)
    ELSE IF Head(t) = "+" THEN DigitsValue(Tail(t), 0)
    ELSE DigitsValue(t, 0)

----------------------------------------------------------------------------
\* The decisions of the code, one operator each.

\* Variant: the last element taken for the last comparison index.
MaxIndex_LastElement(files) == Len(files) - 1

\* max_index = len(files_to_compare) - 2
MaxIndex(files) == Len(files) - 2

\* The file list built from the directory and the current file.
BuildFiles(versions, incl, exists) ==
    (IF incl /\ exists THEN <<0>> ELSE <<>>) \o SortNewestFirst(versions)

\* Variant: a missing binary taken for a finished run.
RunDelta_AlwaysTrue(exit) == TRUE

\* Variant: a non-zero exit status taken for a failure.
RunDelta_Strict(exit) == exit = "ok"

\* _run_delta's return value: False only when the binary is missing.
RunDelta(exit) == exit # "notfound"

\* Variant: n accepted at the last comparison too.
NextAllowed_AtLast(ci, mi) == ci <= mi

\* key == 'n' and current_index < max_index
NextAllowed(ci, mi) == ci < mi

\* Variant: p accepted at the first comparison too.
PrevAllowed_AtFirst(ci) == ci >= 0

\* key == 'p' and current_index > 0
PrevAllowed(ci) == ci > 0

\* Variant: the quit key taken to be the capital letter.
QuitKey_Capital(key) == key = "Q"

\* key == 'q'
QuitKey(key) == key = "q"

\* Variant: a single file accepted for comparison.
TooFewFiles_One(files) == Len(files) < 1

\* len(files_to_compare) < 2
TooFewFiles(files) == Len(files) < 2

\* Variant: n skips a comparison.
NextIndex_Skip(ci) == ci + 2

\* current_index += 1
NextIndex(ci) == ci + 1

\* Variant: the prompt of the first pair offers p as well.
ValidKeys_FirstOffersPrev(ci, mi) ==
    IF ci = 0 /\ ci = mi THEN {"s", "q"}
    ELSE IF ci = 0 THEN {"n", "p", "s", "G", "q"}
    ELSE IF ci = mi THEN {"p", "s", "g", "q"}
    ELSE {"n", "p", "s", "g", "G", "q"}

\* The valid_keys set prepared with the prompt.
ValidKeys(ci, mi) ==
    IF ci = 0 /\ ci = mi THEN {"s", "q"}
    ELSE IF ci = 0 THEN {"n", "s", "G", "q"}
    ELSE IF ci = mi THEN {"p", "s", "g", "q"}
    ELSE {"n", "p", "s", "g", "G", "q"}

\* The "Invalid input. Use ..." message for the current position.
InvalidInputMsg(ci, mi) ==
    IF ci = 0 /\ ci = mi THEN "Invalid input. Use s, q"
    ELSE IF ci = 0 THEN "Invalid input. Use n, s, G, q"
    ELSE IF ci = mi THEN "Invalid input. Use p, s, g, q"
    ELSE "Invalid input. Use n, p, s, g, G, q"

\* The else branch of the dispatch: the message for a key that did nothing.
ElseBranchMsg(key, ci, mi) ==
    IF key \notin ValidKeys(ci, mi) THEN <<InvalidInputMsg(ci, mi)>>
    ELSE IF key = "n" THEN <<"Cannot go to next from the last comparison.">>
    ELSE IF key = "p" THEN <<"Cannot go to previous from the first comparison.">>
    ELSE <<>>

\* Variant: g and G jump, and ask for a render, wherever the cursor is.
Dispatch_NoJumpGuard(key, ci, mi) ==
    IF key = "n" /\ NextAllowed(ci, mi)
    THEN [index |-> NextIndex(ci), show |-> TRUE, msgs |-> <<>>]
    ELSE IF key = "p" /\ PrevAllowed(ci)
    THEN [index |-> ci - 1, show |-> TRUE, msgs |-> <<>>]
    ELSE IF key = "g"
    THEN [index |-> 0, show |-> TRUE, msgs |-> <<"Jumped to beginning">>]
    ELSE IF key = "G"
    THEN [index |-> mi, show |-> TRUE, msgs |-> <<"Jumped to end">>]
    ELSE [index |-> ci, show |-> FALSE, msgs |-> ElseBranchMsg(key, ci, mi)]

\* Variant: every key that reaches the dispatch asks for a render.
Dispatch_AlwaysShow(key, ci, mi) ==
    IF key = "n" /\ NextAllowed(ci, mi)
    THEN [index |-> NextIndex(ci), show |-> TRUE, msgs |-> <<>>]
    ELSE IF key = "p" /\ PrevAllowed(ci)
    THEN [index |-> ci - 1, show |-> TRUE, msgs |-> <<>>]
    ELSE IF key = "g"
    THEN IF ci # 0
         THEN [index |-> 0, show |-> TRUE, msgs |-> <<"Jumped to beginning">>]
         ELSE [index |-> ci, show |-> FALSE, msgs |-> <<"Already at the beginning.">>]
    ELSE IF key = "G"
    THEN IF ci # mi
         THEN [index |-> mi, show |-> TRUE, msgs |-> <<"Jumped to end">>]
         ELSE [index |-> ci, show |-> FALSE, msgs |-> <<"Already at the end.">>]
    ELSE [index |-> ci, show |-> TRUE, msgs |-> ElseBranchMsg(key, ci, mi)]

\* Variant: G stops one comparison short of the last.
Dispatch_EndOffByOne(key, ci, mi) ==
    IF key = "n" /\ NextAllowed(ci, mi)
    THEN [index |-> NextIndex(ci), show |-> TRUE, msgs |-> <<>>]
    ELSE IF key = "p" /\ PrevAllowed(ci)
    THEN [index |-> ci - 1, show |-> TRUE, msgs |-> <<>>]
    ELSE IF key = "g"
    THEN IF ci # 0
         THEN [index |-> 0, show |-> TRUE, msgs |-> <<"Jumped to beginning">>]
         ELSE [index |-> ci, show |-> FALSE, msgs |-> <<"Already at the beginning.">>]
    ELSE IF key = "G"
    THEN IF ci # mi
         THEN [index |-> mi - 1, show |-> TRUE, msgs |-> <<"Jumped to end">>]
         ELSE [index |-> ci, show |-> FALSE, msgs |-> <<"Already at the end.">>]
    ELSE [index |-> ci, show |-> FALSE, msgs |-> ElseBranchMsg(key, ci, mi)]

\* The dispatch of a keystroke other than q and s: the new cursor, the new
\* display flag and the messages written.
Dispatch(key, ci, mi) ==
    IF key = "n" /\ NextAllowed(ci, mi)
    THEN [index |-> NextIndex(ci), show |-> TRUE, msgs |-> <<>>]
    ELSE IF key = "p" /\ PrevAllowed(ci)
    THEN [index |-> ci - 1, show |-> TRUE, msgs |-> <<>>]
    ELSE IF key = "g"
    THEN IF ci # 0
         THEN [index |-> 0, show |-> TRUE, msgs |-> <<"Jumped to beginning">>]
         ELSE [index |-> ci, show |-> FALSE, msgs |-> <<"Already at the beginning.">>]
    ELSE IF key = "G"
    THEN IF ci # mi
         THEN [index |-> mi, show |-> TRUE, msgs |-> <<"Jumped to end">>]
         ELSE [index |-> ci, show |-> FALSE, msgs |-> <<"Already at the end.">>]
    ELSE [index |-> ci, show |-> FALSE, msgs |-> ElseBranchMsg(key, ci, mi)]

\* Variant: the validation without the test for two equal ordinals.
SelectiveCheck_NoEqualTest(inp, n) ==
    IF inp = <<>> THEN "No input provided."
    ELSE LET parts == Split(inp) IN
         IF Len(parts) # 2
         THEN "Please enter exactly two numbers separated by a space."
         ELSE IF ~(IsInt(parts[1]) /\ IsInt(parts[2]))
         THEN "Please enter valid numbers."
         ELSE LET num1 == ParseInt(parts[1])
                  num2 == ParseInt(parts[2])
              IN IF num1 < 1 \/ num1 > n \/ num2 < 1 \/ num2 > n
                 THEN "Numbers must be between 1 and n."
                 ELSE "ok"

\* The validation of _selective_compare on the stripped line, for a list of
\* n files: "ok" or the message of the first check that fails.
SelectiveCheck(inp, n) ==
    IF inp = <<>> THEN "No input provided."
    ELSE LET parts == Split(inp) IN
         IF Len(parts) # 2
         THEN "Please enter exactly two numbers separated by a space."
         ELSE IF ~(IsInt(parts[1]) /\ IsInt(parts[2]))
         THEN "Please enter valid numbers."
         ELSE LET num1 == ParseInt(parts[1])
                  num2 == ParseInt(parts[2])
              IN IF num1 < 1 \/ num1 > n \/ num2 < 1 \/ num2 > n
                 THEN "Numbers must be between 1 and n."
                 ELSE IF num1 = num2
                 THEN "Please select two different files."
                 ELSE "ok"

\* Variant: the chosen pair put in sequence order.
SelectedPair_Sorted(files, inp) ==
    LET parts == Split(inp)
        a == ParseInt(parts[1])
        b == ParseInt(parts[2])
    IN IF a < b THEN <<files[a], files[b]>> ELSE <<files[b], files[a]>>

\* file1, file2 = files_to_compare[num1 - 1], files_to_compare[num2 - 1]
\* (sequences are 1-based here).
SelectedPair(files, inp) ==
    LET parts == Split(inp)
    IN <<files[ParseInt(parts[1])], files[ParseInt(parts[2])]>>

\* The pair the main loop renders at cursor ci.
CurrentPair(files, ci) == <<files[ci + 1], files[ci + 2]>>

----------------------------------------------------------------------------
\* The state machine.

Init ==
    /\ pc = "start"
    /\ dir_versions \in {1..n : n \in 0..MaxVersions}
    /\ include_current \in BOOLEAN
    /\ current_exists \in BOOLEAN
    /\ files_to_compare = <<>>
    /\ current_index = 0
    /\ max_index = 0
    /\ show_current_comparison = TRUE
    /\ keys = <<>>
    /\ user_input = <<>>
    /\ delta_calls = <<>>
    /\ delta_exit = "none"
    /\ printed = <<>>
    /\ exit_code = NoExit
    /\ interrupted = FALSE
    /\ ExtractorNotRun
    /\ DirectoryNotUsed

env == <<dir_versions, include_current, current_exists>>

\* compare_versions up to the loop: find the versions, build the list, and
\* leave with status 1 when there is nothing to compare.
Startup ==
    /\ pc = "start"
    /\ interrupted' = FALSE
    /\ UNCHANGED <<xvars, rvars>>
    /\ LET versioned == SortNewestFirst(dir_versions)
           files == BuildFiles(dir_versions, include_current, current_exists)
       IN IF versioned = <<>>
          THEN /\ printed' = <<"Error: No versioned files found">>
               /\ exit_code' = 1
               /\ pc' = "done"
               /\ UNCHANGED <<files_to_compare, max_index>>
          ELSE IF TooFewFiles(files)
          THEN /\ printed' = <<"Error: Need at least 2 files to compare">>
               /\ exit_code' = 1
               /\ pc' = "done"
               /\ UNCHANGED <<files_to_compare, max_index>>
          ELSE /\ printed' = <<"Found files to compare">>
               /\ files_to_compare' = files
               /\ max_index' = MaxIndex(files)
               /\ exit_code' = NoExit
               /\ pc' = "loop"
    /\ current_index' = 0
    /\ show_current_comparison' = TRUE
    /\ UNCHANGED <<env, keys, user_input, delta_calls, delta_exit>>

\* One pass through the top of the loop, up to the prompt: the exhaustion
\* check, then the renderer on the current pair when the display flag is
\* set.  A missing binary ends the loop, and main returns normally.
LoopTop(exit) ==
    /\ pc = "loop"
    /\ interrupted' = FALSE
    /\ UNCHANGED <<xvars, rvars>>
    /\ IF current_index > max_index
       THEN /\ printed' = <<"Reached the end of file history.">>
            /\ exit_code' = 0
            /\ pc' = "done"
            /\ UNCHANGED <<delta_calls, delta_exit>>
       ELSE IF show_current_comparison
       THEN /\ delta_calls' =
                  Append(delta_calls, CurrentPair(files_to_compare, current_index))
            /\ delta_exit' = exit
            /\ IF RunDelta(exit)
               THEN /\ printed' = <<"Comparing">>
                    /\ pc' = "prompt"
                    /\ exit_code' = exit_code
               ELSE /\ printed' = <<"Comparing", "Error: 'delta' command not found.",
                                    "Failed to run delta comparison">>
                    /\ pc' = "done"
                    /\ exit_code' = 0
       ELSE /\ printed' = <<>>
            /\ pc' = "prompt"
            /\ UNCHANGED <<delta_calls, delta_exit, exit_code>>
    /\ UNCHANGED <<env, files_to_compare, current_index, max_index,
                   show_current_comparison, keys, user_input>>

\* KeyboardInterrupt while the renderer runs for the main loop: it reaches
\* main's handler.
RenderInterrupt ==
    /\ pc = "loop"
    /\ interrupted' = TRUE
    /\ UNCHANGED <<xvars, rvars>>
    /\ ~(current_index > max_index)
    /\ show_current_comparison
    /\ delta_calls' = Append(delta_calls, CurrentPair(files_to_compare, current_index))
    /\ delta_exit' = "interrupt"
    /\ printed' = <<"Comparing", "Operation cancelled by user">>
    /\ exit_code' = 1
    /\ pc' = "done"
    /\ UNCHANGED <<env, files_to_compare, current_index, max_index,
                   show_current_comparison, keys, user_input>>

\* One keystroke read at the prompt and dispatched.
Key(key) ==
    /\ pc = "prompt"
    /\ interrupted' = FALSE
    /\ UNCHANGED <<xvars, rvars>>
    /\ Len(keys) < MaxKeys
    /\ keys' = Append(keys, key)
    /\ IF QuitKey(key)
       THEN /\ printed' = <<"Exiting...">>
            /\ exit_code' = 0
            /\ pc' = "done"
            /\ UNCHANGED <<current_index, show_current_comparison>>
       ELSE IF key = "s"
       THEN /\ printed' = <<"Selective compare", "Available files:">>
            /\ pc' = "sel_input"
            /\ UNCHANGED <<current_index, show_current_comparison, exit_code>>
       ELSE LET d == Dispatch(key, current_index, max_index)
            IN /\ current_index' = d.index
               /\ show_current_comparison' = d.show
               /\ printed' = d.msgs
               /\ pc' = "loop"
               /\ exit_code' = exit_code
    /\ UNCHANGED <<env, files_to_compare, max_index, user_input, delta_calls,
                   delta_exit>>

\* KeyboardInterrupt while get_single_keypress blocks: main's handler.
KeyInterrupt ==
    /\ pc = "prompt"
    /\ interrupted' = TRUE
    /\ UNCHANGED <<xvars, rvars>>
    /\ printed' = <<"Operation cancelled by user">>
    /\ exit_code' = 1
    /\ pc' = "done"
    /\ UNCHANGED <<env, files_to_compare, current_index, max_index,
                   show_current_comparison, keys, user_input, delta_calls,
                   delta_exit>>

\* user_input = input().strip()
SelReadLine(line) ==
    /\ pc = "sel_input"
    /\ interrupted' = FALSE
    /\ UNCHANGED <<xvars, rvars>>
    /\ user_input' = Strip(line)
    /\ printed' = <<>>
    /\ pc' = "sel_check"
    /\ UNCHANGED <<env, files_to_compare, current_index, max_index,
                   show_current_comparison, keys, delta_calls, delta_exit,
                   exit_code>>

\* Variant: no handler in _selective_compare, the interrupt reaches main.
SelInputInterrupt_Propagates ==
    /\ pc = "sel_input"
    /\ interrupted' = TRUE
    /\ UNCHANGED <<xvars, rvars>>
    /\ printed' = <<"Operation cancelled by user">>
    /\ exit_code' = 1
    /\ user_input' = <<>>
    /\ pc' = "done"
    /\ UNCHANGED <<env, files_to_compare, current_index, max_index,
                   show_current_comparison, keys, delta_calls, delta_exit>>

\* KeyboardInterrupt while input() blocks: caught inside _selective_compare,
\* which returns False; the loop goes on with the flag clear.
SelInputInterrupt ==
    /\ pc = "sel_input"
    /\ interrupted' = TRUE
    /\ UNCHANGED <<xvars, rvars>>
    /\ printed' = <<"Selective compare cancelled.",
                    "Selective compare failed or cancelled.">>
    /\ show_current_comparison' = FALSE
    /\ user_input' = <<>>
    /\ pc' = "loop"
    /\ UNCHANGED <<env, files_to_compare, current_index, max_index, keys,
                   delta_calls, delta_exit, exit_code>>

\* The rest of _selective_compare on a line that fails validation, and the
\* caller's handling of the False it returns.
SelReject ==
    /\ pc = "sel_check"
    /\ interrupted' = FALSE
    /\ UNCHANGED <<xvars, rvars>>
    /\ SelectiveCheck(user_input, Len(files_to_compare)) # "ok"
    /\ printed' = <<SelectiveCheck(user_input, Len(files_to_compare)),
                    "Selective compare failed or cancelled.">>
    /\ show_current_comparison' = FALSE
    /\ user_input' = <<>>
    /\ pc' = "loop"
    /\ UNCHANGED <<env, files_to_compare, current_index, max_index, keys,
                   delta_calls, delta_exit, exit_code>>

\* Variant: a selective compare that leaves the cursor on the first chosen
\* file.
SelCompare_MovesCursor(exit) ==
    /\ pc = "sel_check"
    /\ interrupted' = FALSE
    /\ UNCHANGED <<xvars, rvars>>
    /\ SelectiveCheck(user_input, Len(files_to_compare)) = "ok"
    /\ delta_calls' = Append(delta_calls, SelectedPair(files_to_compare, user_input))
    /\ delta_exit' = exit
    /\ printed' = IF RunDelta(exit)
                  THEN <<"Comparing">>
                  ELSE <<"Comparing", "Error: 'delta' command not found.",
                         "Selective compare failed or cancelled.">>
    /\ current_index' =
           IF ParseInt(Split(user_input)[1]) - 1 <= max_index
           THEN ParseInt(Split(user_input)[1]) - 1 ELSE max_index
    /\ show_current_comparison' = FALSE
    /\ user_input' = <<>>
    /\ pc' = "loop"
    /\ UNCHANGED <<env, files_to_compare, max_index, keys, exit_code>>

\* The rest of _selective_compare on a valid line: one run of the renderer
\* on the chosen pair, and the caller's handling of its result.
SelCompare(exit) ==
    /\ pc = "sel_check"
    /\ interrupted' = FALSE
    /\ UNCHANGED <<xvars, rvars>>
    /\ SelectiveCheck(user_input, Len(files_to_compare)) = "ok"
    /\ delta_calls' = Append(delta_calls, SelectedPair(files_to_compare, user_input))
    /\ delta_exit' = exit
    /\ printed' = IF RunDelta(exit)
                  THEN <<"Comparing">>
                  ELSE <<"Comparing", "Error: 'delta' command not found.",
                         "Selective compare failed or cancelled.">>
    /\ show_current_comparison' = FALSE
    /\ user_input' = <<>>
    /\ pc' = "loop"
    /\ UNCHANGED <<env, files_to_compare, current_index, max_index, keys,
                   exit_code>>

\* KeyboardInterrupt while the renderer runs for a selective compare: caught
\* by _selective_compare's handler.
SelCompareInterrupt ==
    /\ pc = "sel_check"
    /\ interrupted' = TRUE
    /\ UNCHANGED <<xvars, rvars>>
    /\ SelectiveCheck(user_input, Len(files_to_compare)) = "ok"
    /\ delta_calls' = Append(delta_calls, SelectedPair(files_to_compare, user_input))
    /\ delta_exit' = "interrupt"
    /\ printed' = <<"Comparing", "Selective compare cancelled.",
                    "Selective compare failed or cancelled.">>
    /\ show_current_comparison' = FALSE
    /\ user_input' = <<>>
    /\ pc' = "loop"
    /\ UNCHANGED <<env, files_to_compare, current_index, max_index, keys,
                   exit_code>>

Next ==
    \/ Startup
    \/ \E exit \in DeltaExits : LoopTop(exit)
    \/ RenderInterrupt
    \/ \E key \in Keys : Key(key)
    \/ KeyInterrupt
    \/ \E line \in Lines : SelReadLine(line)
    \/ SelInputInterrupt
    \/ SelReject
    \/ \E exit \in DeltaExits : SelCompare(exit)
    \/ SelCompareInterrupt

Spec == Init /\ [][Next]_vars

----------------------------------------------------------------------------
\* File names and time stamps.  A name, like a line of input, is a sequence
\* of characters; "\n" is the line feed and "U+0663" the ARABIC-INDIC DIGIT
\* THREE, a decimal digit that is none of 0..9.

DateDigits == 8     \* \d{8}
TimeDigits == 6     \* \d{6}

\* What \d matches in a str pattern: every Unicode decimal digit.
UnicodeDigits == Digits \cup {"U+0663"}

\* str.rfind(c), counted from 1; 0 when c does not occur.
LastIndexOf(s, c) ==
    IF \E i \in DOMAIN s : s[i] = c THEN Max({i \in DOMAIN s : s[i] = c}) ELSE 0

\* Path(name).suffix: from the last dot on, unless that dot leads or ends
\* the name.
Suffix(name) ==
    LET i == LastIndexOf(name, ".")
    IN IF 1 < i /\ i < Len(name) THEN SubSeq(name, i, Len(name)) ELSE <<>>

\* Path(name).stem
Stem(name) == SubSeq(name, 1, Len(name) - Len(Suffix(name)))

\* commit_date.rsplit(' ', 1)[0]
DatePart(commit_date) ==
    LET i == LastIndexOf(commit_date, " ")
    IN IF i = 0 THEN commit_date ELSE SubSeq(commit_date, 1, i - 1)

\* The two-digit field of s that starts at position i.
Field(s, i) == DigitsValue(SubSeq(s, i, i + 1), 0)

\* datetime.strptime(s, "%Y-%m-%d %H:%M:%S") does not raise ValueError, for
\* s in the fixed-width form that %ci of `git log` writes.
StrptimeAccepts(s) ==
    /\ Len(s) = 19
    /\ \A i \in 1..19 :
          IF i \in {5, 8} THEN s[i] = "-"
          ELSE IF i = 11 THEN s[i] = " "
          ELSE IF i \in {14, 17} THEN s[i] = ":"
          ELSE s[i] \in Digits
    /\ DigitsValue(SubSeq(s, 1, 4), 0) >= 1
    /\ Field(s, 6) \in 1..12
    /\ Field(s, 9) \in 1..31
    /\ Field(s, 12) \in 0..23
    /\ Field(s, 15) \in 0..59
    /\ Field(s, 18) \in 0..61

\* dt.strftime("%Y%m%d.%H%M%S")
Strftime(s) ==
    SubSeq(s, 1, 4) \o SubSeq(s, 6, 7) \o SubSeq(s, 9, 10) \o <<".">>
        \o SubSeq(s, 12, 13) \o SubSeq(s, 15, 16) \o SubSeq(s, 18, 19)

\* _format_timestamp: the zone is cut off and the reading reformatted; when
\* the reading cannot be parsed the stamp of the wall clock, now, is taken.
FormatTimestamp(commit_date, now) ==
    IF StrptimeAccepts(DatePart(commit_date))
    THEN Strftime(DatePart(commit_date))
    ELSE now

\* _generate_output_filename, for a file path without a directory.
GenerateOutputFilename(filepath, timestamp) ==
    Stem(filepath) \o <<"-">> \o timestamp \o Suffix(filepath)

\* The pattern without its anchors matches the whole of s: re.escape makes
\* the stem and the suffix match themselves only.
FullMatch(s, stem, suffix) ==
    /\ Len(s) = Len(stem) + 1 + DateDigits + 1 + TimeDigits + Len(suffix)
    /\ SubSeq(s, 1, Len(stem)) = stem
    /\ s[Len(stem) + 1] = "-"
    /\ \A i \in 1..DateDigits : s[Len(stem) + 1 + i] \in UnicodeDigits
    /\ s[Len(stem) + DateDigits + 2] = "."
    /\ \A i \in 1..TimeDigits : s[Len(stem) + DateDigits + 2 + i] \in UnicodeDigits
    /\ SubSeq(s, Len(s) - Len(suffix) + 1, Len(s)) = suffix

\* pattern.match(file_path.name) for the pattern ^...$: the $ matches at the
\* end of the name and also before a line feed that ends the name.
PatternMatch(name, stem, suffix) ==
    \/ FullMatch(name, stem, suffix)
    \/ /\ name # <<>>
       /\ name[Len(name)] = "\n"
       /\ FullMatch(SubSeq(name, 1, Len(name) - 1), stem, suffix)

\* timestamp = f"{date_part}.{time_part}" of a name the pattern matches.
TimestampOf(name, stem) ==
    SubSeq(name, Len(stem) + 2, Len(stem) + DateDigits + TimeDigits + 2)

\* ord(c) of a character of a time stamp.
CodePoint(c) ==
    IF c = "U+0663" THEN 1635 ELSE IF c = "." THEN 46 ELSE 48 + DigitVal(c)

\* a < b for two str.
RECURSIVE StrLess(_, _)
StrLess(a, b) ==
    IF b = <<>> THEN FALSE
    ELSE IF a = <<>> THEN TRUE
    ELSE IF Head(a) = Head(b) THEN StrLess(Tail(a), Tail(b))
    ELSE CodePoint(Head(a)) < CodePoint(Head(b))

\* One more entry for a list sorted newest first; the sort is stable, so
\* the entry goes behind those with the same time stamp.
RECURSIVE InsertNewestFirst(_, _, _)
InsertNewestFirst(sorted, name, stem) ==
    IF sorted = <<>> THEN <<name>>
    ELSE IF StrLess(TimestampOf(Head(sorted), stem), TimestampOf(name, stem))
    THEN <<name>> \o sorted
    ELSE <<Head(sorted)>> \o InsertNewestFirst(Tail(sorted), name, stem)

\* _find_versioned_files over the entries of the directory: the names the
\* pattern matches, sorted by time stamp, newest first.
RECURSIVE FindVersionedFiles(_, _)
FindVersionedFiles(entries, base_filename) ==
    IF entries = <<>> THEN <<>>
    ELSE LET n == Len(entries)
             before == FindVersionedFiles(SubSeq(entries, 1, n - 1), base_filename)
         IN IF PatternMatch(entries[n], Stem(base_filename), Suffix(base_filename))
            THEN InsertNewestFirst(before, entries[n], Stem(base_filename))
            ELSE before

\* Base file names: with an extension, without one, with a dot in the stem.
BaseNames == {<<"f", ".", "t">>, <<"f">>, <<"a", ".", "b", ".", "t">>}

\* Commit dates as %ci writes them: two with the same reading in different
\* zones, one a second later.
CommitDates ==
    {<<"2", "0", "2", "5", "-", "0", "7", "-", "2", "2", " ",
       "0", "1", ":", "0", "2", ":", "0", "3", " ", "+", "0", "0", "0", "0">>,
     <<"2", "0", "2", "5", "-", "0", "7", "-", "2", "2", " ",
       "0", "1", ":", "0", "2", ":", "0", "3", " ", "+", "0", "2", "0", "0">>,
     <<"2", "0", "2", "5", "-", "0", "7", "-", "2", "2", " ",
       "0", "1", ":", "0", "2", ":", "0", "4", " ", "+", "0", "0", "0", "0">>}

\* Stamps datetime.now() may give.
WallClocks ==
    {<<"2", "0", "2", "6", "0", "1", "0", "1", ".", "0", "0", "0", "0", "0", "0">>,
     <<"2", "0", "2", "6", "0", "1", "0", "1", ".", "0", "0", "0", "0", "0", "1">>}

----------------------------------------------------------------------------
\* git-version-extractor.py: the extraction of the versions of one file from
\* its git history.
\*
\* A commit is [content, date]: what `git show <hash>:<path>` writes to its
\* standard output, Unreadable when that command fails, or Undecodable when
\* what it writes is no UTF-8 text, and the commit
\* date of `git log`, "YYYY-mm-dd HH:MM:SS" and the zone offset after it.

\* The comparer before it runs, in a run of the extractor.
SessionNotRun ==
    /\ pc = "start"
    /\ dir_versions = {}
    /\ include_current = FALSE
    /\ current_exists = FALSE
    /\ files_to_compare = <<>>
    /\ current_index = 0
    /\ max_index = 0
    /\ show_current_comparison = TRUE
    /\ keys = <<>>
    /\ user_input = <<>>
    /\ delta_calls = <<>>
    /\ delta_exit = "none"
    /\ printed = <<>>
    /\ exit_code = NoExit
    /\ interrupted = FALSE

\* `git show` failed for the commit: CalledProcessError.
Unreadable == <<"fatal">>

\* `git show` wrote bytes that subprocess.run(text=True) cannot decode:
\* UnicodeDecodeError, which is no RuntimeError.
Undecodable == <<"0xff">>

\* File contents in the history; the blank stands for trailing white space.
RawContents == {<<"a">>, <<"a", " ">>, <<"b">>}

Commits ==
    [content : RawContents \cup {Unreadable, Undecodable}, date : CommitDates]

Histories == UNION {[1..n -> Commits] : n \in 0..MaxCommits}

\* How `git log --follow <path>` ends: with a list, with an error whose text
\* has "does not exist" or "bad revision", or with another error.
LogOutcomes == {"ok", "unknown_path", "failed"}

\* _run_git_command returns result.stdout.strip().
GitShow(commit) == Strip(commit.content)

\* Variant: every failure of `git log` taken for an empty history.
GetFileCommits_Swallow(log) == "commits"

\* What _get_file_commits does with the outcome of `git log`: it returns
\* the commits, raises FileNotFoundError, or lets the RuntimeError through.
GetFileCommits(log) ==
    IF log = "ok" THEN "commits"
    ELSE IF log = "unknown_path" THEN "FileNotFoundError"
    ELSE "RuntimeError"

\* Variant: the limit ignored.
LimitCommits_Ignored(commits, mv) == commits

\* if max_versions: commits = commits[:max_versions]
LimitCommits(commits, mv) ==
    IF mv = 0 THEN commits
    ELSE IF mv > 0
    THEN SubSeq(commits, 1, IF mv < Len(commits) THEN mv ELSE Len(commits))
    ELSE SubSeq(commits, 1, IF Len(commits) + mv > 0 THEN Len(commits) + mv ELSE 0)

InitExtract ==
    /\ SessionNotRun
    /\ DirectoryNotUsed
    /\ x_pc = "start"
    /\ x_filepath \in BaseNames
    /\ x_is_repo \in BOOLEAN
    /\ x_log \in LogOutcomes
    /\ x_history \in (IF x_log = "ok" THEN Histories ELSE {<<>>})
    /\ x_max_versions \in (0 - 1)..MaxLimit
    /\ x_commits = <<>>
    /\ x_i = 0
    /\ x_count = 0
    /\ x_prev = NoContent
    /\ x_writes = <<>>
    /\ x_printed = <<>>
    /\ x_exit = NoExit
    /\ x_interrupted = FALSE

xenv == <<x_filepath, x_is_repo, x_log, x_history, x_max_versions>>

\* extract_versions, first test: _is_git_repository.
XCheckRepo ==
    /\ x_pc = "start"
    /\ IF x_is_repo
       THEN /\ x_pc' = "log"
            /\ x_printed' = <<>>
            /\ x_exit' = x_exit
       ELSE /\ x_pc' = "done"
            /\ x_printed' = <<"Error: Current directory is not a git repository">>
            /\ x_exit' = 1
    /\ UNCHANGED <<xenv, x_commits, x_i, x_count, x_prev, x_writes, x_interrupted>>
    /\ UNCHANGED <<vars, rvars>>

\* extract_versions: _get_file_commits, the empty case and the limit; an
\* exception reaches main's handler.
XGetCommits ==
    /\ x_pc = "log"
    /\ IF GetFileCommits(x_log) = "FileNotFoundError"
       THEN /\ x_pc' = "done"
            /\ x_printed' = <<"Error: File not found in git history">>
            /\ x_exit' = 1
            /\ UNCHANGED x_commits
       ELSE IF GetFileCommits(x_log) = "RuntimeError"
       THEN /\ x_pc' = "done"
            /\ x_printed' = <<"Error: Git command failed">>
            /\ x_exit' = 1
            /\ UNCHANGED x_commits
       ELSE IF x_history = <<>>
       THEN /\ x_pc' = "done"
            /\ x_printed' = <<"No commits found for file",
                              "Successfully extracted versions">>
            /\ x_exit' = 0
            /\ UNCHANGED x_commits
       ELSE /\ x_pc' = "loop"
            /\ x_commits' = LimitCommits(x_history, x_max_versions)
            /\ x_printed' = <<>>
            /\ x_exit' = x_exit
    /\ UNCHANGED <<xenv, x_i, x_count, x_prev, x_writes, x_interrupted>>
    /\ UNCHANGED <<vars, rvars>>

\* One pass of the loop over the commits.  A RuntimeError is caught in the
\* loop; a UnicodeDecodeError is caught nowhere and ends the process.
XExtractOne ==
    /\ x_pc = "loop"
    /\ x_i < Len(x_commits)
    /\ x_i' = x_i + 1
    /\ LET commit == x_commits[x_i + 1]
       IN IF commit.content = Undecodable
          THEN /\ x_printed' = <<"Traceback: UnicodeDecodeError">>
               /\ x_pc' = "done"
               /\ x_exit' = 1
               /\ UNCHANGED <<x_count, x_prev, x_writes>>
          ELSE IF commit.content = Unreadable
          THEN /\ x_printed' = <<"Warning: Could not extract version">>
               /\ UNCHANGED <<x_pc, x_exit, x_count, x_prev, x_writes>>
          ELSE IF GitShow(commit) = x_prev
          THEN /\ x_printed' = <<>>
               /\ UNCHANGED <<x_pc, x_exit, x_count, x_prev, x_writes>>
          ELSE /\ \E now \in WallClocks :
                     LET timestamp == FormatTimestamp(commit.date, now)
                         output_path == GenerateOutputFilename(x_filepath, timestamp)
                     IN x_writes' = Append(x_writes, <<output_path, GitShow(commit)>>)
               /\ x_printed' = <<"Extracted">>
               /\ x_count' = x_count + 1
               /\ x_prev' = GitShow(commit)
               /\ UNCHANGED <<x_pc, x_exit>>
    /\ UNCHANGED <<xenv, x_commits, x_interrupted>>
    /\ UNCHANGED <<vars, rvars>>

\* The loop is over: extract_versions returns the count, main prints it.
XFinish ==
    /\ x_pc = "loop"
    /\ x_i = Len(x_commits)
    /\ x_pc' = "done"
    /\ x_printed' = <<"Successfully extracted versions">>
    /\ x_exit' = 0
    /\ UNCHANGED <<xenv, x_commits, x_i, x_count, x_prev, x_writes, x_interrupted>>
    /\ UNCHANGED <<vars, rvars>>

\* KeyboardInterrupt while a git command runs: main's handler.
XInterrupt ==
    /\ \/ x_pc \in {"start", "log"}
       \/ x_pc = "loop" /\ x_i < Len(x_commits)
    /\ x_pc' = "done"
    /\ x_interrupted' = TRUE
    /\ x_printed' = <<"Operation cancelled by user">>
    /\ x_exit' = 1
    /\ UNCHANGED <<xenv, x_commits, x_i, x_count, x_prev, x_writes>>
    /\ UNCHANGED <<vars, rvars>>

NextExtract ==
    \/ XCheckRepo
    \/ XGetCommits
    \/ XExtractOne
    \/ XFinish
    \/ XInterrupt

SpecExtract == InitExtract /\ [][NextExtract]_xvars

----------------------------------------------------------------------------
\* One directory shared by the two programs: the extractor writes snapshots
\* of r_base into it, other files may lie there, and the comparer's
\* _find_versioned_files lists it for the same base name.

\* A name of the pattern's form for the base name.
WellFormed(base_filename) ==
    GenerateOutputFilename(base_filename,
        <<"2", "0", "2", "4", "1", "2", "3", "1", ".", "2", "3", "5", "9", "5", "9">>)

\* Names of other files that may lie in the directory: the base file, and
\* names that depart from a well-formed one in one place.
OtherNames(base_filename) ==
    LET g == WellFormed(base_filename)
        k == Len(Stem(base_filename))
    IN {base_filename,
        g,
        g \o <<"\n">>,
        [g EXCEPT ![k + 2] = "U+0663"],
        [g EXCEPT ![k + 2] = "x"],
        [g EXCEPT ![k + DateDigits + 2] = "x"],
        [g EXCEPT ![k + 1] = "_"],
        [g EXCEPT ![1] = "x"],
        SubSeq(g, 1, k + DateDigits) \o SubSeq(g, k + DateDigits + 2, Len(g)),
        g \o <<"x">>,
        <<"x">> \o g,
        g \o <<"\n", "\n">>}

InitRoundTrip ==
    /\ SessionNotRun
    /\ ExtractorNotRun
    /\ r_pc = "fill"
    /\ r_base \in BaseNames
    /\ r_dir = <<>>
    /\ r_written = {}
    /\ r_found = <<>>

\* The extractor writes the snapshot of one commit: write_text makes the
\* file, or replaces the one of that name.
RWrite(commit_date) ==
    /\ r_pc = "fill"
    /\ Len(r_dir) < MaxEntries
    /\ \E now \in WallClocks :
          LET timestamp == FormatTimestamp(commit_date, now)
              output_path == GenerateOutputFilename(r_base, timestamp)
          IN /\ r_dir' = IF output_path \in {r_dir[i] : i \in DOMAIN r_dir}
                         THEN r_dir
                         ELSE Append(r_dir, output_path)
             /\ r_written' = r_written \cup {<<commit_date, output_path>>}
    /\ UNCHANGED <<r_pc, r_base, r_found>>
    /\ UNCHANGED <<vars, xvars>>

\* Some other file is put into the directory.
ROther(name) ==
    /\ r_pc = "fill"
    /\ Len(r_dir) < MaxEntries
    /\ name \notin {r_dir[i] : i \in DOMAIN r_dir}
    /\ r_dir' = Append(r_dir, name)
    /\ UNCHANGED <<r_pc, r_base, r_written, r_found>>
    /\ UNCHANGED <<vars, xvars>>

\* The comparer lists the directory.
RFind ==
    /\ r_pc = "fill"
    /\ r_pc' = "done"
    /\ r_found' = FindVersionedFiles(r_dir, r_base)
    /\ UNCHANGED <<r_base, r_dir, r_written>>
    /\ UNCHANGED <<vars, xvars>>

NextRoundTrip ==
    \/ \E commit_date \in CommitDates : RWrite(commit_date)
    \/ \E name \in OtherNames(r_base) : ROther(name)
    \/ RFind

SpecRoundTrip == InitRoundTrip /\ [][NextRoundTrip]_rvars

----------------------------------------------------------------------------
\* Vocabulary of the properties.

Range(f) == {f[i] : i \in DOMAIN f}

\* The interactive loop has been entered.
Entered == files_to_compare # <<>>

LastKey == keys[Len(keys)]

LastPrinted == printed[Len(printed)]

\* This step reads one keystroke.
KeyStep == Len(keys') = Len(keys) + 1

\* This step invokes the renderer.
DeltaStep == Len(delta_calls') = Len(delta_calls) + 1

LastCall == delta_calls[Len(delta_calls)]

\* The adjacent pairs of the sequence, in order.
AdjacentPairs(files) == [i \in 1..(Len(files) - 1) |-> <<files[i], files[i + 1]>>]

----------------------------------------------------------------------------
\* C1: once the loop is entered, the sequence has length L >= 2,
\* max_index = L - 2 and 0 <= current_index <= max_index, whatever keys and
\* selective compares came before, so files_to_compare[current_index] and
\* files_to_compare[current_index + 1] (0-based) both exist.
C1_CursorInRange ==
    Entered =>
        /\ Len(files_to_compare) >= 2
        /\ max_index = Len(files_to_compare) - 2
        /\ 0 <= current_index
        /\ current_index <= max_index
        /\ {current_index + 1, current_index + 2} \subseteq DOMAIN files_to_compare

\* The cursor sits on the last pair after a jump, a refused n and a
\* selective compare.
C1_Witness ==
    /\ pc = "loop"
    /\ keys = <<"G", "n", "s">>
    /\ max_index >= 1
    /\ current_index = max_index

\* C2 (as claimed): n at the last pair, or p at the first, leaves the
\* cursor alone, clears the display flag and writes the boundary message
\* "Cannot go to next from the last comparison." / "Cannot go to previous
\* from the first comparison.".
C2_BoundaryMessage ==
    [][(pc = "prompt" /\ KeyStep) =>
         /\ (keys'[Len(keys')] = "n" /\ current_index = max_index) =>
                /\ current_index' = current_index
                /\ show_current_comparison' = FALSE
                /\ printed' = <<"Cannot go to next from the last comparison.">>
         /\ (keys'[Len(keys')] = "p" /\ current_index = 0) =>
                /\ current_index' = current_index
                /\ show_current_comparison' = FALSE
                /\ printed' = <<"Cannot go to previous from the first comparison.">>
      ]_vars

C4_RepeatedNext ==
    (Entered /\ (\A i \in DOMAIN keys : keys[i] = "n")
       /\ delta_exit \in {"none", "ok", "nonzero"}) =>
        /\ current_index = IF Len(keys) < max_index THEN Len(keys) ELSE max_index
        /\ Len(delta_calls) \in {current_index, current_index + 1}
        /\ delta_calls = SubSeq(AdjacentPairs(files_to_compare), 1, Len(delta_calls))
        /\ pc = "prompt" => Len(delta_calls) = current_index + 1
        /\ (pc = "loop" /\ show_current_comparison) => Len(delta_calls) = current_index
        /\ \A i, j \in DOMAIN delta_calls : i # j => delta_calls[i] # delta_calls[j]

\* Only n was pressed, the cursor reached the last of at least three pairs
\* and every pair has been rendered.
C4_Witness ==
    /\ pc = "prompt"
    /\ keys # <<>>
    /\ \A i \in DOMAIN keys : keys[i] = "n"
    /\ max_index >= 2
    /\ current_index = max_index
    /\ delta_calls = AdjacentPairs(files_to_compare)

----------------------------------------------------------------------------
\* C5: a selective compare never changes the navigation state.  From the s
\* keystroke to the return to the loop, whatever the line typed, the
\* renderer's exit or an interrupt, current_index, files_to_compare and
\* max_index keep their values.
C5_SelectiveKeepsNavigation ==
    [][((pc = "prompt" /\ pc' = "sel_input") \/ pc \in {"sel_input", "sel_check"}) =>
         /\ current_index' = current_index
         /\ files_to_compare' = files_to_compare
         /\ max_index' = max_index
         /\ pc' \in {"sel_input", "sel_check", "loop"}]_vars

\* Back in the loop after the selective compare of "1 3" at a cursor that
\* is not 0.
C5_Witness ==
    /\ pc = "loop"
    /\ keys # <<>>
    /\ LastKey = "s"
    /\ current_index > 0
    /\ delta_calls # <<>>
    /\ LastCall = <<files_to_compare[1], files_to_compare[3]>>

\* The decimal numeral of an ordinal below 10, and the line "a b".
Numeral(k) == <<CHOOSE c \in Digits : DigitVal(c) = k>>

OrdinalLine(a, b) == Numeral(a) \o <<" ">> \o Numeral(b)

\* C6: a selective compare given the line "a b", with a and b two different
\* ordinals of [1, length], runs the renderer exactly once, on
\* (sequence[a-1], sequence[b-1]) in the order typed.
C6_SelectivePairAsTyped ==
    [][pc = "sel_check" =>
         \A a, b \in 1..Len(files_to_compare) :
            (a # b /\ a < 10 /\ b < 10 /\ user_input = OrdinalLine(a, b)) =>
                /\ delta_calls' =
                       Append(delta_calls, <<files_to_compare[a], files_to_compare[b]>>)
                /\ pc' = "loop"]_vars

\* "3 1" was typed and the renderer ran on (sequence[2], sequence[0]).
C6_Witness ==
    /\ pc = "loop"
    /\ keys # <<>>
    /\ LastKey = "s"
    /\ Len(files_to_compare) >= 3
    /\ delta_calls # <<>>
    /\ LastCall = <<files_to_compare[3], files_to_compare[1]>>

\* The number of tokens of a line: the places where a run of non-blanks
\* starts.
TokenCount(inp) ==
    Cardinality({i \in DOMAIN inp : inp[i] # " " /\ (i = 1 \/ inp[i - 1] = " ")})

\* The kind of validation failure of a stripped line for n files, "valid"
\* when there is none.
FailureKind(inp, n) ==
    IF inp = <<>> THEN "empty"
    ELSE IF TokenCount(inp) # 2 THEN "not two tokens"
    ELSE IF \E t \in Range(Split(inp)) : ~IsInt(t) THEN "not an integer"
    ELSE IF \E t \in Range(Split(inp)) : ParseInt(t) \notin 1..n THEN "out of range"
    ELSE IF ParseInt(Split(inp)[1]) = ParseInt(Split(inp)[2]) THEN "equal"
    ELSE "valid"

FailureMessage(kind) ==
    CASE kind = "empty" -> "No input provided."
      [] kind = "not two tokens" ->
             "Please enter exactly two numbers separated by a space."
      [] kind = "not an integer" -> "Please enter valid numbers."
      [] kind = "out of range" -> "Numbers must be between 1 and n."
      [] kind = "equal" -> "Please select two different files."

\* C7: a selective-compare line that fails validation (empty, not two
\* tokens, a token that is no integer, an ordinal outside [1, length], two
\* equal ordinals) gets the message of that failure, no renderer run, and
\* the loop goes on at the same cursor.
C7_InvalidSelectiveRejected ==
    [][(pc = "sel_check"
          /\ FailureKind(user_input, Len(files_to_compare)) # "valid") =>
         /\ printed'[1] = FailureMessage(FailureKind(user_input, Len(files_to_compare)))
         /\ delta_calls' = delta_calls
         /\ current_index' = current_index
         /\ pc' = "loop"]_vars

\* Back in the loop after a line with two equal ordinals, at a cursor that
\* is not 0, with only the first render made.
C7_Witness ==
    /\ pc = "loop"
    /\ keys = <<"n", "s">>
    /\ current_index = 1
    /\ printed # <<>>
    /\ printed[1] = "Please select two different files."
    /\ Len(delta_calls) = 2

\* C8: when the binary is missing as the main loop renders the current
\* pair, the failure is reported and the session is over: no keystroke is
\* read in that step, and no step follows the end of the session.
C8_MissingRendererEndsSession ==
    [][/\ pc # "done"
       /\ (pc = "loop" /\ DeltaStep /\ delta_exit' = "notfound") =>
             /\ pc' = "done"
             /\ keys' = keys
             /\ "Error: 'delta' command not found." \in Range(printed')
             /\ LastPrinted' = "Failed to run delta comparison"]_vars

\* The first render found no binary: the session is over with no key read.
C8_Witness ==
    /\ pc = "done"
    /\ delta_exit = "notfound"
    /\ Len(delta_calls) = 1
    /\ keys = <<>>

\* C9 (as claimed): the exit status is 0 after q or exhaustion and 1 after
\* "no versioned files", "need at least 2 files" or a missing renderer.
C9_ExitCodes ==
    (pc = "done" /\ printed # <<>>) =>
        /\ LastPrinted \in {"Exiting...", "Reached the end of file history."} =>
               exit_code = 0
        /\ LastPrinted \in {"Error: No versioned files found",
                            "Error: Need at least 2 files to compare",
                            "Failed to run delta comparison"} =>
               exit_code = 1

\* C10: a renderer run that ends with a non-zero exit status is handled as
\* one that ends with status 0: from the top of the loop either leads to the
\* prompt at the same cursor with the session running, and the not-found
\* report is written exactly when the binary is missing.
C10_NonZeroExitIsSuccess ==
    [][DeltaStep =>
         /\ (pc = "loop" /\ delta_exit' \in {"ok", "nonzero"}) =>
                /\ pc' = "prompt"
                /\ current_index' = current_index
                /\ printed' = <<"Comparing">>
                /\ exit_code' = NoExit
         /\ ("Error: 'delta' command not found." \in Range(printed'))
                <=> (delta_exit' = "notfound")]_vars

\* The prompt is reached after a second render that exited non-zero.
C10_Witness ==
    /\ pc = "prompt"
    /\ delta_exit = "nonzero"
    /\ keys = <<"n">>
    /\ current_index = 1
    /\ Len(delta_calls) = 2

----------------------------------------------------------------------------
\* C11 (as claimed): when the binary is missing as the selective compare
\* runs the renderer, the session is over in that step: no return to the
\* loop, no further prompt.
C11_MissingRendererFatalInSelective ==
    [][(pc = "sel_check" /\ DeltaStep /\ delta_exit' = "notfound") =>
         pc' = "done"]_vars

\* C12 (as claimed): a KeyboardInterrupt at any blocking call ends the
\* session with "Operation cancelled by user" and status 1.
C12_InterruptEndsSession ==
    [][interrupted' =>
         /\ pc' = "done"
         /\ exit_code' = 1
         /\ printed'[Len(printed')] = "Operation cancelled by user"]_vars

\* C12 (amended): a KeyboardInterrupt at the keystroke read or during the
\* main loop's renderer run ends the session with "Operation cancelled by
\* user" and status 1; one at the selective compare's line input or during
\* its renderer run is caught there, reported as "Selective compare
\* cancelled.", and the loop goes on at the same cursor.
C12_InterruptByBlockingPoint ==
    [][interrupted' =>
         IF pc \in {"loop", "prompt"}
         THEN /\ pc' = "done"
              /\ exit_code' = 1
              /\ printed'[Len(printed')] = "Operation cancelled by user"
         ELSE /\ pc \in {"sel_input", "sel_check"}
              /\ pc' = "loop"
              /\ exit_code' = NoExit
              /\ current_index' = current_index
              /\ "Selective compare cancelled." \in Range(printed')
              /\ "Operation cancelled by user" \notin Range(printed')]_vars

\* The line input of a selective compare was interrupted at a cursor that
\* is not 0 and the session is back in the loop.
C12_Witness ==
    /\ pc = "loop"
    /\ interrupted
    /\ keys = <<"n", "s">>
    /\ current_index = 1
    /\ Len(delta_calls) = 2
    /\ exit_code = NoExit

\* C13: the first pass of the loop renders the pair at cursor 0; a key that
\* comes back to the loop sets the display flag exactly when it changed the
\* cursor; a selective compare comes back with the flag clear; and a pass of
\* the loop runs the renderer, on the current pair, exactly when the flag
\* is set, so that nothing is rendered between a key that did not move the
\* cursor and the next keystroke read.
C13_RenderOnlyAfterMove ==
    [][/\ (pc = "start" /\ pc' = "loop") =>
              (show_current_comparison' /\ current_index' = 0)
       /\ (pc = "prompt" /\ pc' = "loop") =>
              (show_current_comparison' <=> current_index' # current_index)
       /\ (pc \in {"sel_input", "sel_check"} /\ pc' = "loop") =>
              ~show_current_comparison'
       /\ (pc = "loop") =>
              /\ DeltaStep <=> show_current_comparison
              /\ DeltaStep =>
                     delta_calls'[Len(delta_calls')] =
                         CurrentPair(files_to_compare, current_index)
       /\ (pc = "prompt") => ~DeltaStep]_vars

\* After n, g and a second g the prompt is reached with three renders made:
\* the first pair, the second, the first again, and none for the second g.
C13_Witness ==
    /\ pc = "prompt"
    /\ keys = <<"n", "g", "g">>
    /\ max_index >= 1
    /\ delta_calls = <<CurrentPair(files_to_compare, 0),
                       CurrentPair(files_to_compare, 1),
                       CurrentPair(files_to_compare, 0)>>

\* C14: whenever the last two keys read are g then G the cursor is at
\* max_index, and whenever they are G then g it is at 0, whatever came
\* before.
C14_JumpsLandOnEnds ==
    (Entered /\ Len(keys) >= 2) =>
        /\ (keys[Len(keys) - 1] = "g" /\ LastKey = "G") => current_index = max_index
        /\ (keys[Len(keys) - 1] = "G" /\ LastKey = "g") => current_index = 0

\* From the middle pair, g then G: the cursor is on the last of at least
\* three pairs.
C14_Witness ==
    /\ pc = "prompt"
    /\ keys = <<"n", "g", "G">>
    /\ max_index >= 2
    /\ current_index = max_index

\* C15: g at cursor 0 and G at cursor max_index leave the cursor, the
\* sequence and max_index as they are, keep the session running and write
\* "Already at the beginning." / "Already at the end." and no invalid-input
\* message, also when max_index = 0.
C15_BoundaryJumpsIdempotent ==
    [][(pc = "prompt" /\ KeyStep) =>
         /\ (keys'[Len(keys')] = "g" /\ current_index = 0) =>
                /\ current_index' = 0
                /\ printed' = <<"Already at the beginning.">>
                /\ pc' = "loop"
                /\ exit_code' = NoExit
                /\ <<files_to_compare, max_index>>' = <<files_to_compare, max_index>>
         /\ (keys'[Len(keys')] = "G" /\ current_index = max_index) =>
                /\ current_index' = max_index
                /\ printed' = <<"Already at the end.">>
                /\ pc' = "loop"
                /\ exit_code' = NoExit
                /\ <<files_to_compare, max_index>>' = <<files_to_compare, max_index>>
      ]_vars

\* With a single pair, G was pressed twice and answered "Already at the
\* end." both times.
C15_Witness ==
    /\ pc = "loop"
    /\ max_index = 0
    /\ keys = <<"G", "G">>
    /\ current_index = 0
    /\ printed = <<"Already at the end.">>

\* The commands of the dispatch.
CommandKeys == {"q", "s", "n", "p", "g", "G"}

\* C16: a key that is no command, n at the last pair and p at the first are
\* answered with a message, leave the cursor alone and the session running,
\* and the pass of the loop that follows reaches the prompt without running
\* the renderer.
C16_IllegalKeyRecoverable ==
    [][/\ (pc = "prompt" /\ KeyStep
             /\ \/ keys'[Len(keys')] \notin CommandKeys
                \/ (keys'[Len(keys')] = "n" /\ current_index = max_index)
                \/ (keys'[Len(keys')] = "p" /\ current_index = 0)) =>
              /\ current_index' = current_index
              /\ printed' # <<>>
              /\ pc' = "loop"
              /\ exit_code' = NoExit
              /\ ~show_current_comparison'
       /\ (pc = "loop" /\ ~show_current_comparison /\ ~interrupted') =>
              /\ pc' = "prompt"
              /\ ~DeltaStep]_vars

\* p was pressed at the first pair, then an unknown key, and the prompt is
\* back with the one render of the start.
C16_Witness ==
    /\ pc = "prompt"
    /\ keys = <<"p", "x">>
    /\ current_index = 0
    /\ Len(delta_calls) = 1
    /\ exit_code = NoExit

\* C17: once q has been read the session is over: q is the last key read,
\* "Exiting..." is the last thing written, and no render was made after it.
C17_QuitTerminates ==
    [][/\ (pc = "prompt" /\ KeyStep /\ keys'[Len(keys')] = "q") =>
              /\ pc' = "done"
              /\ printed' = <<"Exiting...">>
              /\ ~DeltaStep
              /\ <<current_index, show_current_comparison>>'
                     = <<current_index, show_current_comparison>>
       /\ pc # "done"
       /\ "q" \notin Range(keys)]_vars

\* q was read at the last pair with the display flag clear.
C17_Witness ==
    /\ pc = "done"
    /\ keys = <<"G", "G", "q">>
    /\ current_index = max_index
    /\ max_index >= 1
    /\ ~show_current_comparison

\* The number of entries the sequence would have.
EntryCount ==
    Cardinality(dir_versions) + (IF include_current /\ current_exists THEN 1 ELSE 0)

\* C18: with fewer than two entries the program ends at startup with an
\* error message and status 1; the loop is never entered: no render, no
\* keystroke read.
C18_TooFewIsStartupError ==
    (pc # "start" /\ EntryCount < 2) =>
        /\ pc = "done"
        /\ exit_code = 1
        /\ printed \in {<<"Error: No versioned files found">>,
                        <<"Error: Need at least 2 files to compare">>}
        /\ ~Entered
        /\ keys = <<>>
        /\ delta_calls = <<>>

\* One versioned file and no working copy included.
C18_Witness ==
    /\ pc = "done"
    /\ Cardinality(dir_versions) = 1
    /\ ~(include_current /\ current_exists)
    /\ printed = <<"Error: Need at least 2 files to compare">>
    /\ exit_code = 1

----------------------------------------------------------------------------
\* Properties of the extractor.

\* Every commit the loop went through could be read.
AllReadable ==
    \A i \in DOMAIN x_commits : x_commits[i].content \notin {Unreadable, Undecodable}

\* The commits that start a maximal run of identical content.
RunHeads(commits) ==
    {i \in DOMAIN commits : i = 1 \/ commits[i].content # commits[i - 1].content}

\* C19 (as claimed): when every commit can be read, the number of versions
\* extracted is the number of maximal runs of consecutive commits with
\* identical file content.
C19_OneSnapshotPerRun ==
    (x_pc = "done" /\ x_exit = 0 /\ AllReadable) =>
        x_count = Cardinality(RunHeads(x_commits))

MetUndecodable == x_i >= 1 /\ x_commits[x_i].content = Undecodable

----------------------------------------------------------------------------
\* Properties of the file names.

\* The digits of s that are among 0..9, in order.
DigitsOf(s) == SelectSeq(s, LAMBDA c : c \in Digits)

\* name is stem-YYYYMMDD.HHMMSS+suffix for the base name: eight digits
\* 0..9, a dot, six digits 0..9, and nothing before, between or after.
ExactForm(name, base_filename) ==
    LET stem == Stem(base_filename)
        suffix == Suffix(base_filename)
        k == Len(stem)
    IN /\ Len(name) = k + 16 + Len(suffix)
       /\ \A i \in 1..k : name[i] = stem[i]
       /\ name[k + 1] = "-"
       /\ \A i \in (k + 2)..(k + 9) : name[i] \in Digits
       /\ name[k + 10] = "."
       /\ \A i \in (k + 11)..(k + 16) : name[i] \in Digits
       /\ \A i \in 1..Len(suffix) : name[k + 16 + i] = suffix[i]

\* C21 (as claimed): every name the extractor wrote for the base name has
\* the form name-YYYYMMDD.HHMMSS.ext with the digits of its commit's date
\* and time, and is returned by the comparer's listing for that base name;
\* and the listing returns no name of the directory that is not of exactly
\* that form.
C21_NamingRoundTrip ==
    r_pc = "done" =>
        /\ \A w \in r_written :
               /\ ExactForm(w[2], r_base)
               /\ DigitsOf(w[2]) = SubSeq(DigitsOf(w[1]), 1, 14)
               /\ w[2] \in Range(r_found)
        /\ \A i \in DOMAIN r_dir :
               r_dir[i] \in Range(r_found) => ExactForm(r_dir[i], r_base)

----------------------------------------------------------------------------
\* The legal keys as the prompts advertise them, by position of the cursor.
Advertised(ci, mi) ==
    CASE ci = 0 /\ mi = 0 -> {"s", "q"}
      [] ci = 0 /\ mi > 0 -> {"n", "s", "G", "q"}
      [] ci > 0 /\ ci = mi -> {"p", "s", "g", "q"}
      [] ci > 0 /\ ci < mi -> {"n", "p", "s", "g", "G", "q"}

\* C22: at every prompt valid_keys is the advertised set of the cursor's
\* position, and a key read there is in that set exactly when its dispatch
\* ends the session, enters selective compare or changes the cursor.
C22_AdvertisedKeysAct ==
    [][(pc = "prompt" /\ KeyStep) =>
          /\ ValidKeys(current_index, max_index) = Advertised(current_index, max_index)
          /\ keys'[Len(keys')] \in ValidKeys(current_index, max_index)
                <=> \/ pc' = "done"
                    \/ pc' = "sel_input"
                    \/ current_index' # current_index]_vars

\* At the first of several pairs p, not advertised there, did nothing, then
\* G, advertised there, moved the cursor to the last pair.
C22_Witness ==
    /\ pc = "loop"
    /\ keys = <<"p", "G">>
    /\ max_index >= 1
    /\ current_index = max_index
    /\ show_current_comparison

----------------------------------------------------------------------------
\* Retrieving the content of the commit failed: `git show` ended with an
\* error, or what it wrote could not be decoded.
RetrievalFails(commit) == commit.content \in {Unreadable, Undecodable}

\* C23 (as claimed): a commit whose content cannot be retrieved is skipped
\* with a warning and not counted, nothing is written for it, and the loop
\* goes on to the commits that remain.
C23_FailedCommitSkipped ==
    [][(x_pc = "loop" /\ x_i' = x_i + 1 /\ RetrievalFails(x_commits[x_i + 1])) =>
          /\ x_printed' = <<"Warning: Could not extract version">>
          /\ x_count' = x_count
          /\ x_writes' = x_writes
          /\ x_pc' = "loop"
          /\ x_exit' = NoExit]_xvars

----------------------------------------------------------------------------
\* The first n entries of a sequence, all of them when it has fewer.
Prefix(seq, n) == SubSeq(seq, 1, IF n < Len(seq) THEN n ELSE Len(seq))

\* C24: with --max-versions N, N positive, the loop goes through the first
\* N commits of the history only, which `git log` lists newest first, and
\* the count never exceeds N.
C24_MaxVersionsBounds ==
    x_max_versions > 0 =>
        /\ x_pc = "loop" => x_commits = Prefix(x_history, x_max_versions)
        /\ Len(x_commits) <= x_max_versions
        /\ x_i <= Len(x_commits)
        /\ x_count <= x_i
        /\ x_count <= x_max_versions
        /\ Len(x_writes) = x_count

\* The history has more commits than the limit, all with different content,
\* and the run ended with as many versions as the limit allows.
C24_Witness ==
    /\ x_pc = "done"
    /\ x_exit = 0
    /\ x_max_versions = 2
    /\ Len(x_history) = 3
    /\ x_history[3].content \notin {x_history[1].content, x_history[2].content}
    /\ x_commits = SubSeq(x_history, 1, 2)
    /\ x_count = 2

----------------------------------------------------------------------------
\* The output paths written so far.
PathsWritten == {x_writes[i][1] : i \in DOMAIN x_writes}

\* C25 (as claimed): the count is the number of different files written:
\* no two versions of one run are written to the same output path.
C25_CountIsFilesWritten ==
    /\ x_count = Cardinality(PathsWritten)
    /\ \A i, j \in DOMAIN x_writes : i # j => x_writes[i][1] # x_writes[j][1]

====
